---- MODULE Spec2Model ----
(***************************************************************************)
(* Model of the structured query engine of the sales analytics assistant:  *)
(* utils/tools.py (tool_query, _apply_filters, _overlap_months) and the    *)
(* column resolver of utils/aliases.py (resolve_col, COLUMN_ALIASES).      *)
(*                                                                         *)
(* Cell values are tagged tuples, so that values of different Python       *)
(* types never compare equal:                                              *)
(*   <<"num", n>>        an int/float cell (numeric dtype)                 *)
(*   <<"str", s>>        a str cell                                        *)
(*   <<"nan">>           a missing cell (NaN / None)                       *)
(*   <<"dstr", y, m, d>> the str "YYYY-MM-DD" as read from the CSV         *)
(*   <<"date", y, m, d>> a datetime.date                                   *)
(*   <<"nat">>           pandas.NaT                                        *)
(*   <<"none">>          Python None                                       *)
(* A table is [cols |-> sequence of column names, rows |-> sequence of     *)
(* rows], a row being a function from the column names to cells.           *)
(***************************************************************************)
EXTENDS Integers, Sequences, FiniteSets, TLC

VARIABLES df, pc, args, env, res

vars == <<df, pc, args, env, res>>

\* ---------------------------------------------------------------- bounds

\* Largest number of rows of the source table.
MaxRows == 2

\* Largest integer limit a descriptor carries.
MaxLimit == 2

\* ---------------------------------------------------------------- values

None == <<"none">>
NaN == <<"nan">>
NaT == <<"nat">>
Num(n) == <<"num", n>>
Str(s) == <<"str", s>>
DateV(y, m, d) == <<"date", y, m, d>>
DateS(y, m, d) == <<"dstr", y, m, d>>

Tag(v) == v[1]
IsNum(v) == Tag(v) = "num"
IsDate(v) == Tag(v) = "date"

\* left fold of a sequence
RECURSIVE FoldSeq(_, _, _)
FoldSeq(Op(_, _), acc, s) == IF s = <<>> THEN acc ELSE FoldSeq(Op, Op(acc, Head(s)), Tail(s))

SeqToSet(s) == {s[i] : i \in DOMAIN s}

\* the elements of s that satisfy Keep, in order
RECURSIVE FilterSeq(_, _)
FilterSeq(Keep(_), s) ==
    IF s = <<>>
    THEN <<>>
    ELSE (IF Keep(Head(s)) THEN <<Head(s)>> ELSE <<>>) \o FilterSeq(Keep, Tail(s))

\* x in list
InSeq(x, s) == \E i \in DOMAIN s : s[i] = x

\* ----------------------------------------------------------------- dates

IsLeap(y) == (y % 4 = 0) /\ ((y % 100 # 0) \/ (y % 400 = 0))

DaysBeforeYear(y) == (y - 1) * 365 + ((y - 1) \div 4) - ((y - 1) \div 100) + ((y - 1) \div 400)

DaysBeforeMonth(y, m) ==
    <<0, 31, 59, 90, 120, 151, 181, 212, 243, 273, 304, 334>>[m] + (IF m > 2 /\ IsLeap(y)
                                                                    THEN 1
                                                                    ELSE 0)

\* datetime.date.toordinal of a <<"date", y, m, d>> value
ToOrdinal(v) == DaysBeforeYear(v[2]) + DaysBeforeMonth(v[2], v[3]) + v[4]

\* _to_pydate: None for a missing value, the date of a date or of a parseable
\* string, NaT (pd.to_datetime(x, errors="coerce").date()) for any other string
ToPyDate(x) ==
    CASE Tag(x) \in {"none", "nan", "nat"} -> None
          [] Tag(x) = "date" -> x
          [] Tag(x) = "dstr" -> DateV(x[2], x[3], x[4])
          [] OTHER -> NaT

\* pd.to_datetime(column, errors="coerce").dt.date, cell by cell
NormalizeCell(x) ==
    CASE Tag(x) = "date" -> x [] Tag(x) = "dstr" -> DateV(x[2], x[3], x[4]) [] OTHER -> NaT

DateMax(a, b) == IF ToOrdinal(b) > ToOrdinal(a) THEN b ELSE a

DateMin(a, b) == IF ToOrdinal(b) < ToOrdinal(a) THEN b ELSE a

\* the month count rounded down instead of up
FloorMonths(n) == (10 * n) \div 304

\* int(np.ceil(n / 30.4)) for an integer n >= 0
CeilMonths(n) == (10 * n + 303) \div 304

\* _overlap_months on None or date arguments
OverlapMonths(cs, ce, ws, we) ==
    IF cs = None \/ ce = None \/ ws = None \/ we = None
    THEN 0
    ELSE LET a == DateMax(cs, ws)
             b == DateMin(ce, we)
         IN  IF ToOrdinal(b) < ToOrdinal(a)
             THEN 0
             ELSE CeilMonths(ToOrdinal(b) - ToOrdinal(a) + 1)

\* ------------------------------------------------------- column resolver

\* COLUMN_ALIASES, as the set of its <<alias, canonical name>> items
COLUMN_ALIASES ==
    {<<"customer_name", "company_name">>, <<"client_name", "company_name">>,
     <<"account_name", "company_name">>, <<"company", "company_name">>,
     <<"customer", "company_name">>, <<"client", "company_name">>, <<"name", "company_name">>,
     <<"revenue", "period_revenue_usd">>, <<"total_revenue", "period_revenue_usd">>,
     <<"revenue_usd", "period_revenue_usd">>, <<"period_revenue", "period_revenue_usd">>,
     <<"mrr", "mrr_usd">>, <<"arr", "mrr_usd">>, <<"start_date", "contract_start">>,
     <<"end_date", "contract_end">>, <<"contract_start_date", "contract_start">>,
     <<"contract_end_date", "contract_end">>, <<"is_churn", "churn">>,
     <<"churn_flag", "churn">>, <<"churn_probability", "churn_probability_percent">>,
     <<"churn_prob", "churn_probability_percent">>,
     <<"churn_risk", "churn_probability_percent">>,
     <<"probability_of_churn", "churn_probability_percent">>,
     <<"services_used", "services_used_count">>, <<"service_count", "services_used_count">>,
     <<"num_services", "services_used_count">>, <<"number_of_services", "services_used_count">>,
     <<"feedback_text", "feedback">>, <<"customer_feedback", "feedback">>,
     <<"notes", "feedback">>}

VIRTUAL_COLS == {"period_revenue_usd"}

\* COLUMN_ALIASES.get(name): "" stands for None
AliasGet(name) ==
    IF \E p \in COLUMN_ALIASES : p[1] = name
    THEN (CHOOSE p \in COLUMN_ALIASES : p[1] = name)[2]
    ELSE ""

\* str.lower on the names the descriptors of this model use
Lower(s) ==
    CASE s = "REVENUE" -> "revenue"
          [] s = "Company" -> "company"
          [] s = "MRR_USD" -> "mrr_usd"
          [] s = "COMPANY_NAME" -> "company_name"
          [] s = "Churn_Risk" -> "churn_risk"
          [] s = "CHURN" -> "churn"
          [] OTHER -> s

\* str.strip on the names the descriptors of this model use
Strip(s) == CASE s = " revenue " -> "revenue" [] OTHER -> s

\* A column reference is <<"s", name>> (a str), <<"d", name>> (a dict whose
\* "col" entry is the str name), <<"e", name>> (a dict whose "expr" mentions
\* name) or None.  _as_col_name gives the name, "" standing for None.
AsColName(x) ==
    CASE Tag(x) = "s" -> Strip(x[2])
          [] Tag(x) = "d" -> Strip(x[2])
          [] Tag(x) = "e" -> (IF x[2] \in {"period_revenue_usd", "mrr_usd"} THEN x[2] ELSE "")
          [] OTHER -> ""

\* resolve_col: the canonical column of a reference, "" standing for None
ResolveCol(col_like, schema) ==
    LET name == AsColName(col_like)
        mapped == AliasGet(Lower(name))
    IN  IF name = ""
        THEN ""
        ELSE IF name \in schema \/ name \in VIRTUAL_COLS
        THEN name
        ELSE IF mapped # "" /\ (mapped \in schema \/ mapped \in VIRTUAL_COLS)
        THEN mapped
        ELSE ""

\* ---------------------------------------------------------------- tables

DATE_COLS == {"signup_date", "contract_start", "contract_end"}

\* the names ending in "_date" among the column names of this model
EndsWithDate(col) == col \in {"signup_date", "renewal_date"}

\* _is_date_col
IsDateCol(col) == col \in DATE_COLS \/ EndsWithDate(col)

\* pd.api.types.is_numeric_dtype of a column: the numeric columns of the
\* dataset (NUM_COLS of the smoke test) and the two computed ones
NumericCols ==
    {"mrr_usd", "churn", "churn_probability_percent", "overlap_months", "period_revenue_usd"}

IsNumericCol(t, col) == InSeq(col, t.cols) /\ col \in NumericCols

ColSet(t) == SeqToSet(t.cols)

NRows(t) == Len(t.rows)

\* df[col] = cells: replaces the column, or appends it as the last column
SetItem(t, col, cells) ==
    [cols |->
     IF InSeq(col, t.cols)
     THEN t.cols
     ELSE Append(t.cols, col), rows |-> [i \in DOMAIN t.rows |-> [c \in ColSet(t) \cup {col} |->
                                             IF c = col
                                             THEN cells[i]
                                             ELSE t.rows[i][c]]]]

\* df[keep]: the listed columns, in the listed order, of every row
Project(t, keep) ==
    [cols |-> keep, rows |-> [i \in DOMAIN t.rows |-> [c \in SeqToSet(keep) |-> t.rows[i][c]]]]

\* df[mask]: the rows whose index satisfies Keep, in order
RECURSIVE SelectIdx(_, _, _)
SelectIdx(rows, Keep(_), i) ==
    IF i > Len(rows)
    THEN <<>>
    ELSE (IF Keep(i) THEN <<rows[i]>> ELSE <<>>) \o SelectIdx(rows, Keep, i + 1)

\* The frames a call holds: "src" is the caller's table, "out" the working
\* frame.  df.copy() binds the working name to a new frame with the same
\* content; writes through the returned name go to that frame only.
\* (DfAlias is the binding without the copy: out = df.)
DfAlias(frames, name) == [name |-> name, frames |-> frames]

DfCopy(frames, name) == [name |-> "out", frames |-> [frames EXCEPT !["out"] = frames[name]]]

\* out[col] = cells, on the frame the name is bound to
SetItemAt(h, col, cells) == [h EXCEPT !.frames[h.name] = SetItem(h.frames[h.name], col, cells)]

Frame(h) == h.frames[h.name]

\* ------------------------------------------------------------- normalize

\* tools.py 98-100: every known date column present becomes date-only
NormalizeDates(h) ==
    LET Step(acc, c) ==
            IF c \in ColSet(Frame(acc))
            THEN SetItemAt(acc, c, [i \in DOMAIN Frame(acc).rows |->
                                    NormalizeCell(Frame(acc).rows[i][c])])
            ELSE acc
    IN  FoldSeq(Step, h, <<"signup_date", "contract_start", "contract_end">>)

\* ----------------------------------------------------------- materialize

\* truthiness of the descriptor's "computed" entry ("absent", "true", "false")
Truthy(computed) == computed = "true"

\* wants_period_rev: the literal name in select, aggregations or order_by
WantsPeriodRev(a) ==
    InSeq(<<"s", "period_revenue_usd">>, a.select) \/
        (\E i \in DOMAIN a.aggregations : a.aggregations[i][1] = "period_revenue_usd") \/
        (\E i \in DOMAIN a.order_by : a.order_by[i].col = <<"s", "period_revenue_usd">>)

\* .round(2) of an amount held in thousandths of a dollar (half to even)
Round2(x) ==
    LET r == x % 10
        b == x - r
    IN  IF r < 5 THEN b ELSE IF r > 5 THEN b + 10 ELSE IF (b \div 10) % 2 = 0 THEN b ELSE b + 10

WindowStart(a) == IF a.time_window = None THEN None ELSE ToPyDate(a.time_window[2])

WindowEnd(a) == IF a.time_window = None THEN None ELSE ToPyDate(a.time_window[3])

\* the window used by the overlap: the default one unless both ends are set
EffWindow(a) ==
    IF WindowStart(a) = None \/ WindowEnd(a) = None
    THEN [ws |-> ToPyDate(DateS(2000, 1, 1)), we |-> ToPyDate(DateS(2100, 1, 1))]
    ELSE [ws |-> WindowStart(a), we |-> WindowEnd(a)]

Materializes(t, a) ==
    (Truthy(a.computed) \/ WantsPeriodRev(a)) /\
        {"contract_start", "contract_end", "mrr_usd"} \subseteq ColSet(t)

\* tools.py 111-119.  A row whose contract_start or contract_end is NaT makes
\* max()/min() of _overlap_months raise (NaT is not None and does not order
\* against a date), so the call ends in an error.
Materialize(h, a) ==
    IF ~Materializes(Frame(h), a)
    THEN [err |-> FALSE, h |-> h]
    ELSE LET t == Frame(h)
             w == EffWindow(a)
             bad == \E i \in DOMAIN t.rows :
                        t.rows[i]["contract_start"] = NaT \/ t.rows[i]["contract_end"] = NaT
             Months(r) == OverlapMonths(r["contract_start"], r["contract_end"], w.ws, w.we)
             h1 == SetItemAt(h, "overlap_months", [i \in DOMAIN t.rows |-> Num(Months(t.rows[i]))])
             t1 == Frame(h1)
             Revenue(r) ==
                 IF IsNum(r["mrr_usd"])
                 THEN Num(Round2(r["mrr_usd"][2] * r["overlap_months"][2]))
                 ELSE NaN
             h2 == SetItemAt(h1, "period_revenue_usd",
                             [i \in DOMAIN t1.rows |-> Revenue(t1.rows[i])])
         IN  IF bad THEN [err |-> TRUE, h |-> h] ELSE [err |-> FALSE, h |-> h2]

\* --------------------------------------------------------------- filters

IsNull(v) == Tag(v) \in {"nan", "nat", "none"}

\* The order of the str values of this model (Python compares str by code
\* point); <<"nstr", n>> is the str of the number n, e.g. "75".
StrRank(s) == CASE s = "acme" -> 11 [] s = "beta" -> 12 [] s = "zeta" -> 13 [] OTHER -> 10

\* pd.to_numeric(val, errors="coerce") of a scalar
ToNumeric(val) ==
    CASE Tag(val) = "num" -> val [] Tag(val) = "nstr" -> Num(val[2]) [] OTHER -> NaN

\* _coerce_scalar_for_series
CoerceScalar(val, t, col) ==
    IF IsDateCol(col)
    THEN ToPyDate(val)
    ELSE IF IsNumericCol(t, col) THEN ToNumeric(val) ELSE val

\* the kind of value two cells must share to be ordered
Kind(v) == CASE Tag(v) \in {"str", "nstr"} -> "str" [] OTHER -> Tag(v)

\* a number ordering the values of one kind as Python orders them
OrdKey(v) ==
    CASE Tag(v) = "num" -> v[2]
          [] Tag(v) = "date" -> ToOrdinal(v)
          [] Tag(v) = "nstr" -> 1
          [] Tag(v) = "str" -> StrRank(v[2])
          [] OTHER -> 0

SameValue(x, v) ==
    Kind(x) = Kind(v) /\ (IF Kind(x) = "str" THEN Tag(x) = Tag(v) /\ x[2] = v[2] ELSE x = v)

\* One cell against the filter value under a comparison operator: "T", "F",
\* or "E" when Python raises TypeError.  A missing cell or a missing value
\* compares False (True under !=); values of different types are unequal
\* and do not order.
CellCmp(x, v, op) ==
    IF IsNull(x) \/ IsNull(v)
    THEN (IF op = "!=" THEN "T" ELSE "F")
    ELSE IF op = "=="
    THEN (IF SameValue(x, v) THEN "T" ELSE "F")
    ELSE IF op = "!="
    THEN (IF SameValue(x, v) THEN "F" ELSE "T")
    ELSE IF Kind(x) # Kind(v)
    THEN "E"
    ELSE LET a == OrdKey(x)
             b == OrdKey(v)
         IN  IF (op = ">" /\ a > b) \/ (op = "<" /\ a < b) \/ (op = ">=" /\ a >= b) \/
                 (op = "<=" /\ a <= b)
             THEN "T"
             ELSE "F"

\* out = out[out[col] <op> val]
KeepCmp(acc, col, v, op) ==
    IF \E i \in DOMAIN acc.t.rows : CellCmp(acc.t.rows[i][col], v, op) = "E"
    THEN [acc EXCEPT !.err = TRUE]
    ELSE LET rows == acc.t.rows
             Keep(i) == CellCmp(rows[i][col], v, op) = "T"
         IN  [acc EXCEPT !.t.rows = SelectIdx(rows, Keep, 1)]

\* str(val) occurs in str(cell), ignoring case, for the strings of this model
ContainsCI(cell, val) ==
    (Tag(val) = "str") /\ ((Tag(cell) = "str" /\ ((val[2] = "ac" /\ cell[2] = "acme") \/
                                (val[2] = "e" /\ cell[2] \in {"acme", "beta", "zeta"}) \/
                                val[2] = cell[2])) \/ (Tag(cell) = "nan" /\ val[2] = "na"))

\* the body of the loop of _apply_filters for one filter f
ApplyFilter(acc, f, schema) ==
    LET col == ResolveCol(f.col, schema)
        op == IF f.op = "" THEN "==" ELSE f.op
        t == acc.t
    IN  IF acc.err \/ col = "" \/ ~InSeq(col, t.cols)
        THEN acc
        ELSE IF op = "between"
        THEN LET lo == CoerceScalar(IF Tag(f.value) = "pair" THEN f.value[2] ELSE None, t, col)
                 hi == CoerceScalar(IF Tag(f.value) = "pair" THEN f.value[3] ELSE None, t, col)
                 a1 == IF lo # None THEN KeepCmp(acc, col, lo, ">=") ELSE acc
             IN  IF a1.err THEN a1 ELSE IF hi # None THEN KeepCmp(a1, col, hi, "<=") ELSE a1
        ELSE IF op = "in"
        THEN LET raw == IF Tag(f.value) = "list" THEN f.value[2] ELSE <<f.value>>
                 vals == {CoerceScalar(raw[k], t, col) : k \in DOMAIN raw}
                 Keep(i) == \E v \in vals : ~IsNull(v) /\ SameValue(t.rows[i][col], v)
             IN  [acc EXCEPT !.t.rows = SelectIdx(t.rows, Keep, 1)]
        ELSE IF op \in {"==", "!=", ">", "<", ">=", "<="}
        THEN KeepCmp(acc, col, CoerceScalar(f.value, t, col), op)
        ELSE IF op = "contains"
        THEN LET Keep(i) == ContainsCI(t.rows[i][col], f.value)
             IN  [acc EXCEPT !.t.rows = SelectIdx(t.rows, Keep, 1)]
        ELSE acc

\* filters that each select from the unfiltered table instead of narrowing
ApplyFiltersEach(t, filters, schema) ==
    LET Step(acc, f) == ApplyFilter([err |-> acc.err, t |-> t], f, schema)
    IN  FoldSeq(Step, [err |-> FALSE, t |-> t], filters)

\* _apply_filters: the filters narrow the copy one after the other
ApplyFilters(t, filters, schema) ==
    LET Step(acc, f) == ApplyFilter(acc, f, schema)
    IN  FoldSeq(Step, [err |-> FALSE, t |-> t], filters)

\* ------------------------------------------------- projection and grouping

\* the resolved references, without duplicates, in first-seen order
ResolveList(refs, schema) ==
    LET Step(acc, c) ==
            LET rc == ResolveCol(c, schema)
            IN  IF rc # "" /\ ~InSeq(rc, acc) THEN Append(acc, rc) ELSE acc
    IN  FoldSeq(Step, <<>>, refs)

\* tools.py 125-132
BuildSelect(a, schema, out) ==
    LET sel == ResolveList(a.select, schema) IN IF sel = <<>> THEN out.cols ELSE sel

\* A dict is the sequence of its <<key, value>> items in insertion order.
HasKey(m, k) == \E i \in DOMAIN m : m[i][1] = k

DictGet(m, k) == IF HasKey(m, k) THEN (CHOOSE i \in DOMAIN m : m[i][1] = k) ELSE 0

\* m[k] = v
DictSet(m, k, v) ==
    IF HasKey(m, k)
    THEN [i \in DOMAIN m |-> IF m[i][1] = k THEN <<k, v>> ELSE m[i]]
    ELSE Append(m, <<k, v>>)

\* a setdefault that replaces the value of a key the dict has
SetAlways(m, k, v) == DictSet(m, k, v)

\* m.setdefault(k, v)
SetDefault(m, k, v) == IF HasKey(m, k) THEN m ELSE Append(m, <<k, v>>)

AggKinds == {"sum", "mean", "count", "nunique"}

\* tools.py 135-140: the explicit aggregations that name a column of out
ExplicitAggs(a, schema, out) ==
    LET Step(acc, kv) ==
            LET r == ResolveCol(<<"s", kv[1]>>, schema)
                rc == IF r # "" THEN r ELSE kv[1]
            IN  IF InSeq(rc, out.cols) /\ kv[2] \in AggKinds
                THEN DictSet(acc, rc, kv[2])
                ELSE acc
    IN  FoldSeq(Step, <<>>, a.aggregations)

\* The position of a column name in the iteration of a set of names.  The
\* iteration order of a set of str follows the per-process string hash, so
\* the model takes it from the environment: one order or its reverse.
HashPos(col) ==
    CASE col = "company_name" -> 1
          [] col = "mrr_usd" -> 2
          [] col = "contract_start" -> 3
          [] col = "contract_end" -> 4
          [] col = "churn" -> 5
          [] col = "churn_probability_percent" -> 6
          [] col = "overlap_months" -> 7
          [] col = "period_revenue_usd" -> 8
          [] OTHER -> 9

\* list(S) for a set S of column names, under the environment's hash order
RECURSIVE SetIter(_, _)
SetIter(S, hashRev) ==
    IF S = {}
    THEN <<>>
    ELSE LET x == CHOOSE c \in S : \A d \in S :
                 IF hashRev
                 THEN HashPos(d) <= HashPos(c)
                 ELSE HashPos(c) <= HashPos(d)
         IN  <<x>> \o SetIter(S \ {x}, hashRev)

\* tools.py 163-169: the columns the filters and the order_by refer to
ReferencedCols(a, out) ==
    ({ResolveCol(a.filters[i].col, ColSet(out)) : i \in DOMAIN a.filters} \cup
     {ResolveCol(a.order_by[i].col, ColSet(out)) : i \in DOMAIN a.order_by}) \ {""}

\* tools.py 151-156: the selected numeric columns that are no group key
AggSelected(m, out, select, group_by) ==
    LET Step(acc, c) ==
            IF ~InSeq(c, group_by) /\ IsNumericCol(out, c)
            THEN SetDefault(acc, c, "sum")
            ELSE acc
    IN  FoldSeq(Step, m, select)

\* tools.py 158-161: the revenue column and mrr_usd when out has them
AggRevenue(m, out) ==
    LET Step(acc, c) == IF InSeq(c, out.cols) THEN SetDefault(acc, c, "sum") ELSE acc
    IN  FoldSeq(Step, m, <<"period_revenue_usd", "mrr_usd">>)

\* tools.py 171-180: the referenced numeric columns that are no group key
AggReferenced(m, a, out, group_by, e) ==
    LET Step(acc, col) ==
            IF InSeq(col, group_by) \/ ~IsNumericCol(out, col)
            THEN acc
            ELSE IF col = "churn_probability_percent"
            THEN SetDefault(acc, col, "max")
            ELSE SetDefault(acc, col, "sum")
    IN  FoldSeq(Step, m, SetIter(ReferencedCols(a, out), e.hashRev))

\* tools.py 182-186: an empty map takes the first revenue-like column of out
AggFallback(m, out) ==
    LET Step(acc, c) == IF acc = <<>> /\ InSeq(c, out.cols) THEN DictSet(acc, c, "sum") ELSE acc
    IN  FoldSeq(Step, m, <<"period_revenue_usd", "mrr_usd">>)

\* tools.py 135-186: the aggregation map of a grouped query
BuildAggMap(a, schema, out, select, group_by, e) ==
    AggFallback(AggReferenced(AggRevenue(AggSelected(ExplicitAggs(a, schema, out), out, select,
                                                     group_by), out), a, out, group_by, e),
                out)

\* ----------------------------------------------------------- aggregation

\* numerator and denominator of a numeric value; a mean that is not a whole
\* number is <<"frac", p, q>> in lowest terms
NumP(v) == IF Tag(v) = "frac" THEN v[2] ELSE OrdKey(v)

NumQ(v) == IF Tag(v) = "frac" THEN v[3] ELSE 1

ValLess(x, y) == NumP(x) * NumQ(y) < NumP(y) * NumQ(x)

RECURSIVE Gcd(_, _)
Gcd(a, b) == IF b = 0 THEN a ELSE Gcd(b, a % b)

Ratio(p, q) ==
    IF p % q = 0 THEN Num(p \div q) ELSE <<"frac", p \div Gcd(p, q), q \div Gcd(p, q)>>

SumNums(cells) ==
    LET Add(acc, v) == IF IsNum(v) THEN acc + v[2] ELSE acc IN FoldSeq(Add, 0, cells)

NonNull(cells) == LET Keep(v) == ~IsNull(v) IN FilterSeq(Keep, cells)

\* one aggregation of the cells of one column within one group
Aggregate(how, cells) ==
    LET nn == NonNull(cells)
        Largest == CHOOSE v \in SeqToSet(nn) : \A w \in SeqToSet(nn) : ~ValLess(v, w)
    IN  CASE how = "sum" -> Num(SumNums(nn))
          [] how = "count" -> Num(Len(nn))
          [] how = "nunique" -> Num(Cardinality(SeqToSet(nn)))
          [] how = "mean" -> (IF nn = <<>> THEN NaN ELSE Ratio(SumNums(nn), Len(nn)))
          [] how = "max" -> (IF nn = <<>> THEN NaN ELSE Largest)
          [] OTHER -> NaN

\* the key of a row: its cells in the group-by columns
KeyOf(row, group_by) == [k \in DOMAIN group_by |-> row[group_by[k]]]

\* lexicographic order of two keys
RECURSIVE KeyLess(_, _)
KeyLess(k1, k2) ==
    IF k1 = <<>>
    THEN FALSE
    ELSE IF ValLess(Head(k1), Head(k2))
    THEN TRUE
    ELSE IF ValLess(Head(k2), Head(k1)) THEN FALSE ELSE KeyLess(Tail(k1), Tail(k2))

\* a finite set of keys as the sequence of its elements in increasing order
RECURSIVE SortKeys(_)
SortKeys(K) ==
    IF K = {}
    THEN <<>>
    ELSE LET k == CHOOSE x \in K : \A y \in K : ~KeyLess(y, x) IN <<k>> \o SortKeys(K \ {k})

\* a groupby that keeps the keys with a missing cell (dropna=False)
GroupKeysWithNull(out, group_by) ==
    SortKeys({KeyOf(out.rows[i], group_by) : i \in DOMAIN out.rows})

\* the keys of the groups: the distinct keys with no missing cell, increasing
GroupKeys(out, group_by) ==
    SortKeys({KeyOf(out.rows[i], group_by) : i \in {j \in DOMAIN out.rows :
                  \A k \in DOMAIN group_by : ~IsNull(out.rows[j][group_by[k]])}})

\* out.groupby(group_by, as_index=False).agg(agg_map): one row per key with
\* no missing cell, in increasing key order; the columns are the group keys
\* that the map does not aggregate, then the map's columns in its order.
\* A group key that is no column of out raises KeyError and an empty map
\* raises ValueError: err.
GroupAgg(out, group_by, agg_map) ==
    IF (\E k \in DOMAIN group_by : ~InSeq(group_by[k], out.cols)) \/ agg_map = <<>>
    THEN [err |-> TRUE, t |-> out]
    ELSE LET Full(i) == \A k \in DOMAIN group_by : ~IsNull(out.rows[i][group_by[k]])
             keys == GroupKeys(out, group_by)
             NotAgg(c) == ~HasKey(agg_map, c)
             keyCols == FilterSeq(NotAgg, group_by)
             aggCols == [i \in DOMAIN agg_map |-> agg_map[i][1]]
             Members(key) ==
                 LET Keep(i) == Full(i) /\ KeyOf(out.rows[i], group_by) = key
                 IN  SelectIdx(out.rows, Keep, 1)
             Cells(key, c) == [i \in DOMAIN Members(key) |-> Members(key)[i][c]]
             KeyCell(key, c) == key[CHOOSE k \in DOMAIN group_by : group_by[k] = c]
             Cell(key, c) ==
                 IF HasKey(agg_map, c)
                 THEN Aggregate(agg_map[DictGet(agg_map, c)][2], Cells(key, c))
                 ELSE KeyCell(key, c)
         IN  [err |-> FALSE,
              t |-> [cols |-> keyCols \o aggCols,
                     rows |-> [g \in DOMAIN keys |->
                                  [c \in SeqToSet(keyCols \o aggCols) |-> Cell(keys[g], c)]]]]

\* a rename that does not look at the aggregation kind of churn
RenameChurnAnyKind(t, agg_map) ==
    IF HasKey(agg_map, "churn") /\ InSeq("churn", t.cols)
    THEN [cols |->
          [i \in DOMAIN t.cols |-> IF t.cols[i] = "churn" THEN "churn_rate" ELSE t.cols[i]],
          rows |-> [i \in DOMAIN t.rows |-> [c \in (ColSet(t) \ {"churn"}) \cup
                                             {"churn_rate"} |->
                                             IF c = "churn_rate"
                                             THEN t.rows[i]["churn"]
                                             ELSE t.rows[i][c]]]]
    ELSE t

\* tools.py 190-191
RenameChurn(t, agg_map) ==
    IF HasKey(agg_map, "churn") /\ agg_map[DictGet(agg_map, "churn")][2] = "mean" /\
        InSeq("churn", t.cols)
    THEN [cols |->
          [i \in DOMAIN t.cols |-> IF t.cols[i] = "churn" THEN "churn_rate" ELSE t.cols[i]],
          rows |-> [i \in DOMAIN t.rows |-> [c \in (ColSet(t) \ {"churn"}) \cup
                                             {"churn_rate"} |->
                                             IF c = "churn_rate"
                                             THEN t.rows[i]["churn"]
                                             ELSE t.rows[i][c]]]]
    ELSE t

\* ------------------------------------------------------- order and limit

\* tools.py 197-201: the order_by entries whose column resolves
ResolveOrder(a, t) ==
    LET Step(acc, ob) ==
            LET rc == ResolveCol(ob.col, ColSet(t))
            IN  IF rc # "" THEN Append(acc, [col |-> rc, desc |-> ob.desc]) ELSE acc
    IN  FoldSeq(Step, <<>>, a.order_by)

\* res.sort_values(col, ascending=asc): missing cells last.  The default
\* kind is quicksort, which promises no order among rows with equal keys;
\* the model takes that order from the environment: kept, or reversed.
SortValues(t, col, asc, tieRev) ==
    LET rows == t.rows
        Before(i, j) ==
            LET x == rows[i][col]
                y == rows[j][col]
            IN  IF IsNull(x) /\ IsNull(y)
                THEN i < j
                ELSE IF IsNull(x)
                THEN FALSE
                ELSE IF IsNull(y)
                THEN TRUE
                ELSE IF ValLess(x, y)
                THEN asc
                ELSE IF ValLess(y, x) THEN ~asc ELSE IF tieRev THEN i > j ELSE i < j
        Pos(i) == 1 + Cardinality({j \in DOMAIN rows : j # i /\ Before(j, i)})
    IN  [t EXCEPT !.rows = [p \in DOMAIN rows |-> rows[CHOOSE i \in DOMAIN rows : Pos(i) = p]]]

Reverse(s) == [i \in DOMAIN s |-> s[Len(s) + 1 - i]]

\* tools.py 202-205: one sort per entry, from the last entry to the first
ApplyOrder(t, order_by, e) ==
    LET Step(acc, ob) ==
            IF InSeq(ob.col, acc.cols)
            THEN SortValues(acc, ob.col, ~ob.desc, e.tieRev)
            ELSE acc
    IN  FoldSeq(Step, t, Reverse(order_by))

\* The descriptor's limit is None, <<"int", n>> or <<"str", s>>.
LimitTruthy(limit) ==
    (Tag(limit) = "int" /\ limit[2] # 0) \/ (Tag(limit) = "str" /\ limit[2] # "")

\* head() that keeps one row too many
HeadRowsOneMore(t, n) ==
    [t EXCEPT !.rows = SubSeq(t.rows, 1, IF n + 1 < NRows(t) THEN n + 1 ELSE NRows(t))]

\* res.head(n)
HeadRows(t, n) ==
    LET m ==
            IF n >= 0
            THEN (IF n < NRows(t) THEN n ELSE NRows(t))
            ELSE (IF NRows(t) + n > 0 THEN NRows(t) + n ELSE 0)
    IN  [t EXCEPT !.rows = SubSeq(t.rows, 1, m)]

\* tools.py 206-207: int() of a str that is no number raises ValueError
ApplyLimit(t, limit) ==
    IF ~LimitTruthy(limit)
    THEN [err |-> FALSE, t |-> t]
    ELSE IF Tag(limit) = "int"
    THEN [err |-> FALSE, t |-> HeadRows(t, limit[2])]
    ELSE [err |-> TRUE, t |-> t]

\* ------------------------------------------------------------- tool_query

EmptyTable == [cols |-> <<>>, rows |-> <<>>]

\* tools.py 122 and the state the later stages start from: the filtered
\* copy (err when the Materialize or the Filter stage raised), the schema
\* snapshot, and src, the caller's table as these stages leave it.
FilteredResult(m, f, schema) ==
    [err |-> m.err \/ f.err, t |-> f.t, schema |-> schema, src |-> m.h.frames["src"]]

\* tools.py 122: out = _apply_filters(out, args.get("filters"), schema),
\* not reached when the Materialize stage raised
FilterStage(m, schema, a) ==
    IF m.err
    THEN [err |-> TRUE, t |-> Frame(m.h)]
    ELSE ApplyFilters(Frame(m.h), a.filters, schema)

\* tools.py 95 and 119: schema is set(df.columns), replaced by
\* set(out.columns) when the revenue column was materialized
SchemaAfter(source, m, a) ==
    IF Materializes(source, a) THEN ColSet(Frame(m.h)) ELSE ColSet(source)

\* tools.py 111-122 on the normalized copy h
FilteredFrom(m, source, a) ==
    FilteredResult(m, FilterStage(m, SchemaAfter(source, m, a), a), SchemaAfter(source, m, a))

\* tools.py 95-122: the copy of the table after the Normalize, Materialize
\* and Filter stages.
Filtered(source, a) ==
    FilteredFrom(Materialize(NormalizeDates(DfCopy([src |-> source, out |-> EmptyTable], "src")),
                             a), source, a)

\* an exception leaves the call
Raised(src) == [outcome |-> "error", table |-> EmptyTable, src |-> src]

\* tools.py 209: the table returned
Returned(l, src) ==
    IF l.err THEN Raised(src) ELSE [outcome |-> "ok", table |-> l.t, src |-> src]

\* the Limit stage ahead of the Order stage: the first rows are cut off the
\* shaped table and then sorted
LimitedOrdered(s, src, a, e) ==
    IF s.err \/ ApplyLimit(s.t, a.limit).err
    THEN Raised(src)
    ELSE Returned([err |-> FALSE,
                   t |-> ApplyOrder(ApplyLimit(s.t, a.limit).t, ResolveOrder(a, s.t), e)], src)

\* tools.py 196-207: Order and Limit stages on the shaped table
OrderedLimited(s, src, a, e) ==
    IF s.err
    THEN Raised(src)
    ELSE Returned(ApplyLimit(ApplyOrder(s.t, ResolveOrder(a, s.t), e), a.limit), src)

\* tools.py 190-191 on the result of groupby().agg()
Renamed(g, agg_map) == IF g.err THEN g ELSE [err |-> FALSE, t |-> RenameChurn(g.t, agg_map)]

\* tools.py 193-194: keep = [c for c in select if c in out.columns]
KeepCols(out, select) == LET In(c) == InSeq(c, out.cols) IN FilterSeq(In, select)

\* tools.py 149-194: Aggregate stage when group_by is not empty, else the
\* projection on the selected columns
Shaped(out, schema, a, select, group_by, e) ==
    IF group_by # <<>>
    THEN Renamed(GroupAgg(out, group_by, BuildAggMap(a, schema, out, select, group_by, e)),
                 BuildAggMap(a, schema, out, select, group_by, e))
    ELSE [err |-> FALSE, t |-> Project(out, KeepCols(out, select))]

\* tools.py 125-209 on the filtered copy
Finished(f, a, e) ==
    IF f.err
    THEN Raised(f.src)
    ELSE OrderedLimited(Shaped(f.t, f.schema, a, BuildSelect(a, f.schema, f.t),
                               ResolveList(a.group_by, f.schema), e), f.src, a, e)

\* tool_query(df, args) in environment e: the outcome ("ok" with the table
\* returned, or "error" when an exception leaves the call), and src, the
\* caller's table as the call leaves it.
ToolQuery(source, a, e) == Finished(Filtered(source, a), a, e)

\* -------------------------------------------------- sanitization pre-pass

\* The scalar values a filter of a plan carries besides those above:
\*   <<"dec", t>>    the float t / 10, e.g. 0.5
\*   <<"pct", n>>    the str of the int n followed by "%", e.g. "75%"
\*   <<"pctdec", t>> the str of the float t / 10 followed by "%", e.g. "0.5%"
\*   <<"pcts", s>>   a str that is no number followed by "%", e.g. "abc%"
\* _parse_percentish gives (numeric_value, is_percent_string); the model
\* holds the numeric value in tenths, <<"float", t>>, or None.
Float(t) == <<"float", t>>

\* _parse_percentish that does not strip the percent sign: float("75%") fails
ParsePercentishKeepSign(val) ==
    CASE Tag(val) = "num" -> [num |-> Float(10 * val[2]), pct |-> FALSE]
      [] Tag(val) = "dec" -> [num |-> Float(val[2]), pct |-> FALSE]
      [] Tag(val) = "nstr" -> [num |-> Float(10 * val[2]), pct |-> FALSE]
      [] Tag(val) \in {"pct", "pctdec", "pcts"} -> [num |-> None, pct |-> TRUE]
      [] OTHER -> [num |-> None, pct |-> FALSE]

ParsePercentish(val) ==
    CASE Tag(val) = "num" -> [num |-> Float(10 * val[2]), pct |-> FALSE]
      [] Tag(val) = "dec" -> [num |-> Float(val[2]), pct |-> FALSE]
      [] Tag(val) = "nstr" -> [num |-> Float(10 * val[2]), pct |-> FALSE]
      [] Tag(val) = "pct" -> [num |-> Float(10 * val[2]), pct |-> TRUE]
      [] Tag(val) = "pctdec" -> [num |-> Float(val[2]), pct |-> TRUE]
      [] Tag(val) = "pcts" -> [num |-> None, pct |-> TRUE]
      [] OTHER -> [num |-> None, pct |-> FALSE]

\* COLUMN_ALIASES.get(name.lower(), name)
AliasOrName(name) == IF AliasGet(Lower(name)) # "" THEN AliasGet(Lower(name)) ELSE name

\* aliases.py 127-136: a filter on the churn flag whose value is a number
\* above 1 is taken to mean the churn probability
Disambiguate(mapped, val) ==
    IF Lower(mapped) = "churn" /\ ParsePercentish(val).num # None /\
           ParsePercentish(val).num[2] > 10
    THEN "churn_probability_percent"
    ELSE mapped

\* aliases.py 139: resolve_col(mapped, schema) or (mapped if mapped in
\* VIRTUAL_COLS else None), "" standing for None
ResolveMapped(mapped, schema) ==
    IF ResolveCol(<<"s", mapped>>, schema) # ""
    THEN ResolveCol(<<"s", mapped>>, schema)
    ELSE IF mapped \in VIRTUAL_COLS THEN mapped ELSE ""

\* the column _fix_filters gives the filter f, "" when it drops the filter
FixedCol(f, schema) == ResolveMapped(Disambiguate(AliasOrName(AsColName(f.col)), f.value), schema)

\* _fix_filters: the filters that resolve, each with its resolved column,
\* its operator ("==" when there is none) and its value
FixFilters(filters, schema) ==
    LET Step(acc, f) ==
            IF FixedCol(f, schema) = ""
            THEN acc
            ELSE Append(acc, [col |-> <<"s", FixedCol(f, schema)>>,
                              op |-> IF f.op = "" THEN "==" ELSE f.op, value |-> f.value])
    IN  FoldSeq(Step, <<>>, filters)

REVENUE_LIKE ==
    {"period_revenue_usd", "revenue", "total_revenue", "revenue_usd", "period_revenue",
     "mrr_usd"}

\* A plan is the sequence of its steps [tool, args].  The args of a query
\* step are a descriptor whose order_by entries are <<"ob", col, desc>> (a
\* dict; desc is "true", "false" or "absent") or a column reference (a str).
\* The sanitized descriptor names its columns by <<"s", name>> references.
Refs(names) == [i \in DOMAIN names |-> <<"s", names[i]>>]

\* _fix_list
FixList(cols, schema) == Refs(ResolveList(cols, schema))

\* _fix_order_by
FixOrderBy(order_by, schema) ==
    LET Col(ob) == ResolveCol(IF Tag(ob) = "ob" THEN ob[2] ELSE ob, schema)
        Step(acc, ob) ==
            IF Col(ob) = ""
            THEN acc
            ELSE Append(acc, [col |-> <<"s", Col(ob)>>,
                              desc |-> IF Tag(ob) = "ob" THEN ob[3] = "true" ELSE TRUE])
    IN  FoldSeq(Step, <<>>, order_by)

\* the aggregations loop of sanitize_plan without the test that the column
\* is in the schema or virtual
FixAggsUnchecked(aggs, schema) ==
    LET Col(k) ==
            IF ResolveCol(<<"s", k>>, schema) # ""
            THEN ResolveCol(<<"s", k>>, schema)
            ELSE AsColName(<<"s", k>>)
        Step(acc, kv) ==
            IF Col(kv[1]) # "" /\ kv[2] \in AggKinds THEN DictSet(acc, Col(kv[1]), kv[2]) ELSE acc
    IN  FoldSeq(Step, <<>>, aggs)

\* aliases.py 208-216
FixAggs(aggs, schema) ==
    LET Col(k) ==
            IF ResolveCol(<<"s", k>>, schema) # ""
            THEN ResolveCol(<<"s", k>>, schema)
            ELSE AsColName(<<"s", k>>)
        Step(acc, kv) ==
            IF Col(kv[1]) # "" /\ (Col(kv[1]) \in schema \/ Col(kv[1]) \in VIRTUAL_COLS) /\
                   kv[2] \in AggKinds
            THEN DictSet(acc, Col(kv[1]), kv[2])
            ELSE acc
    IN  FoldSeq(Step, <<>>, aggs)

\* _cols_from_filters, on the fixed filters
ColsFromFilters(filters) == [i \in DOMAIN filters |-> filters[i].col[2]]

\* _ensure_selected
EnsureSelected(a, cols) ==
    LET Step(acc, c) == IF InSeq(<<"s", c>>, acc) THEN acc ELSE Append(acc, <<"s", c>>)
    IN  [a EXCEPT !.select = FoldSeq(Step, a.select, cols)]

\* _mentions_revenue
MentionsRevenue(a) ==
    \/ \E i \in DOMAIN a.select : a.select[i][2] \in REVENUE_LIKE
    \/ \E i \in DOMAIN a.aggregations : a.aggregations[i][1] \in REVENUE_LIKE
    \/ \E i \in DOMAIN a.order_by : a.order_by[i].col[2] \in REVENUE_LIKE
    \/ \E i \in DOMAIN a.filters : a.filters[i].col[2] \in REVENUE_LIKE

\* group_by with company_name appended when it is not there
WithCompany(group_by) ==
    IF InSeq(<<"s", "company_name">>, group_by)
    THEN group_by
    ELSE Append(group_by, <<"s", "company_name">>)

\* aliases.py 179-192 on the descriptor whose select has the revenue column
RevenueDefaults(a, schema) ==
    [a EXCEPT !.computed = IF a.computed = "absent" THEN "true" ELSE a.computed,
              !.time_window =
                  IF a.time_window = None \/ a.time_window[2] = None \/ a.time_window[3] = None
                  THEN <<"win", DateS(2000, 1, 1), DateS(2100, 1, 1)>>
                  ELSE a.time_window,
              !.group_by =
                  IF "company_name" \in schema /\ InSeq(<<"s", "company_name">>, a.select)
                  THEN WithCompany(a.group_by)
                  ELSE a.group_by,
              !.aggregations = SetDefault(a.aggregations, "period_revenue_usd", "sum"),
              !.order_by =
                  IF a.order_by = <<>>
                  THEN <<[col |-> <<"s", "period_revenue_usd">>, desc |-> TRUE]>>
                  ELSE a.order_by]

\* _ensure_revenue_defaults
EnsureRevenueDefaults(a, schema) ==
    RevenueDefaults(EnsureSelected(a, <<"period_revenue_usd">>), schema)

\* aliases.py 203-216: every entry of the descriptor resolved
FixedArgs(a, schema) ==
    [a EXCEPT !.select = FixList(a.select, schema),
              !.group_by = FixList(a.group_by, schema),
              !.filters = FixFilters(a.filters, schema),
              !.order_by = FixOrderBy(a.order_by, schema),
              !.aggregations = FixAggs(a.aggregations, schema)]

\* aliases.py 222-225
DefaultSelect(a, schema) ==
    IF a.select = <<>> /\ "company_name" \in schema
    THEN [a EXCEPT !.select = <<<<"s", "company_name">>>>]
    ELSE a

\* aliases.py 227-229
RevenueTriggers(a, schema) == IF MentionsRevenue(a) THEN EnsureRevenueDefaults(a, schema) ELSE a

\* aliases.py 231-236
GroupRevenueFilters(a, schema) ==
    IF (\E i \in DOMAIN a.filters :
            a.filters[i].col[2] \in {"period_revenue_usd", "mrr_usd", "revenue",
                                     "period_revenue"}) /\ "company_name" \in schema
    THEN [a EXCEPT !.group_by = WithCompany(a.group_by)]
    ELSE a

\* aliases.py 238-240
SelectRisk(a) ==
    IF \E i \in DOMAIN a.filters : a.filters[i].col[2] = "churn_probability_percent"
    THEN EnsureSelected(a, <<"churn_probability_percent">>)
    ELSE a

\* aliases.py 218-240 on the fixed descriptor
Completed(a, schema) ==
    SelectRisk(GroupRevenueFilters(RevenueTriggers(DefaultSelect(
        EnsureSelected(a, ColsFromFilters(a.filters)), schema), schema), schema))

\* the body of the loop of sanitize_plan for the args of one query step
SanitizeArgs(a, schema) == Completed(FixedArgs(a, schema), schema)

\* sanitize_plan: the query steps sanitized, the other steps untouched
SanitizePlan(plan, schema) ==
    [i \in DOMAIN plan |->
        IF plan[i].tool = "query"
        THEN [tool |-> "query", args |-> SanitizeArgs(plan[i].args, schema)]
        ELSE plan[i]]

\* ----------------------------------------------------------------- inputs

\* column references
S(name) == <<"s", name>>
D(name) == <<"d", name>>

\* The rows a source table is made of.  Amounts (mrr_usd, and the computed
\* period_revenue_usd) are held in thousandths of a dollar; contract dates
\* are the strings of the CSV file, dates already parsed by the caller, or
\* missing.
Row(company, mrr, cs, ce, churn, cpp) ==
    [c \in {"company_name", "mrr_usd", "contract_start", "contract_end", "churn",
            "churn_probability_percent"} |->
        CASE c = "company_name" -> company
          [] c = "mrr_usd" -> Num(mrr)
          [] c = "contract_start" -> cs
          [] c = "contract_end" -> ce
          [] c = "churn" -> Num(churn)
          [] OTHER -> Num(cpp)]

RowPool ==
    { Row(Str("acme"), 100000, DateS(2023, 1, 1), DateS(2023, 12, 31), 0, 10),
      Row(Str("acme"), 200004, DateS(2023, 1, 1), DateS(2023, 12, 31), 1, 75),
      Row(Str("beta"), 100000, DateV(2023, 3, 1), DateV(2024, 2, 29), 1, 10),
      Row(NaN, 49990, NaN, DateS(2023, 12, 31), 0, 75) }

Schemas ==
    {<<"company_name", "mrr_usd", "contract_start", "contract_end", "churn",
       "churn_probability_percent">>,
     <<"company_name", "mrr_usd", "churn", "churn_probability_percent">>}

\* the source tables: 1..MaxRows rows of the pool under one of the schemas
Tables ==
    UNION {{Project([cols |-> <<>>, rows |-> rs], sch) : rs \in [1..n -> RowPool]} :
           n \in 1..MaxRows, sch \in Schemas}

\* a filter {col, op, value}
Flt(col, op, value) == [col |-> col, op |-> op, value |-> value]

\* an order_by entry {col, desc}
Ob(col, desc) == [col |-> col, desc |-> desc]

\* a time_window {start, end}
Window(start, end) == <<"win", start, end>>

Desc(select, filters, time_window, group_by, aggregations, order_by, limit, computed) ==
    [select |-> select, filters |-> filters, time_window |-> time_window, group_by |-> group_by,
     aggregations |-> aggregations, order_by |-> order_by, limit |-> limit,
     computed |-> computed]

SelectPool ==
    {<<>>, <<S("company_name")>>, <<S("company"), S("revenue")>>,
     <<S("company_name"), S("period_revenue_usd")>>, <<D("period_revenue_usd")>>,
     <<S("bogus")>>, <<S("REVENUE"), S("mrr_usd")>>}

GroupPool == { <<>>, <<S("company")>>, <<S("period_revenue_usd")>>, <<S("bogus")>> }

FilterPool ==
    {Flt(S("churn"), "==", Num(1)), Flt(S("churn_risk"), ">", Num(50)),
     Flt(S("mrr_usd"), ">=", Str("abc")), Flt(S("company_name"), "", Str("acme")),
     Flt(S("bogus"), "==", Num(1)), Flt(S("company_name"), ">", Num(5)),
     Flt(S("mrr"), "between", <<"pair", Num(100000), None>>), Flt(S("churn"), "~=", Num(1)),
     Flt(S("company"), "in", <<"list", <<Str("acme"), Str("zeta")>>>>),
     Flt(S("company_name"), "contains", Str("ac")), Flt(S("revenue"), ">", Num(0)),
     Flt(S("churn_probability_percent"), "!=", <<"nstr", 75>>)}

\* the filter lists: one filter of the pool, or churn == 1 followed by one
FilterLists ==
    {<<>>} \cup {<<f>> : f \in FilterPool} \cup
        {<<Flt(S("churn"), "==", Num(1)), f>> : f \in FilterPool}

OrderPool ==
    {<<>>, <<Ob(S("churn"), TRUE), Ob(S("mrr_usd"), FALSE)>>,
     <<Ob(S("company_name"), TRUE), Ob(S("mrr_usd"), FALSE)>>, <<Ob(S("revenue"), TRUE)>>,
     <<Ob(S("period_revenue_usd"), TRUE)>>, <<Ob(S("churn_probability_percent"), FALSE)>>,
     <<Ob(S("bogus"), FALSE)>>}

AggPool ==
    {<<>>, <<<<"period_revenue_usd", "sum">>>>, <<<<"revenue", "mean">>>>,
     <<<<"churn", "mean">>>>, <<<<"mrr_usd", "median">>>>, <<<<"bogus", "sum">>>>}

Limits == { None, <<"str", "abc">> } \cup { <<"int", n>> : n \in 0..MaxLimit }

Windows ==
    {None, Window(DateS(2023, 6, 1), DateS(2023, 6, 30)),
     Window(DateS(2024, 1, 1), DateS(2024, 1, 31)), Window(DateS(2023, 6, 1), None)}

Computeds == { "absent", "true", "false" }

\* Descriptors that vary what triggers the revenue column
DescsMaterialize ==
    {Desc(sel, <<>>, None, g, <<>>, <<>>, None, c) : sel \in SelectPool,
     g \in {<<>>, <<S("company")>>}, c \in Computeds}

\* Descriptors that vary the time window
DescsWindow ==
    {Desc(sel, <<>>, w, g, <<>>, <<>>, None, c) :
     sel \in {<<>>, <<S("company_name"), S("period_revenue_usd")>>}, w \in Windows,
     g \in {<<>>, <<S("company")>>}, c \in {"absent", "true"}}

\* Descriptors that vary grouping, explicit aggregations and ordering
DescsAggregate ==
    {Desc(<<>>, <<>>, None, g, ag, ob, None, c) : g \in GroupPool, ag \in AggPool,
     ob \in {<<>>, <<Ob(S("revenue"), TRUE)>>}, c \in {"absent", "true"}}

\* Descriptors that vary the filters
DescsFilter ==
    {Desc(sel, fl, None, g, <<>>, <<>>, None, "absent") : sel \in {<<>>, <<S("company_name")>>},
     fl \in FilterLists, g \in {<<>>, <<S("company")>>}}

\* Descriptors that vary ordering
DescsOrder ==
    {Desc(<<>>, fl, None, g, <<>>, ob, l, "absent") :
     fl \in {<<>>, <<Flt(S("churn"), "==", Num(1))>>}, g \in {<<>>, <<S("company")>>},
     ob \in OrderPool, l \in {None, <<"int", 1>>}}

\* Descriptors that filter a table carrying the revenue column
DescsRevenueFilter ==
    {Desc(<<>>, <<f>>, w, g, <<>>, <<>>, None, "true") :
     f \in {Flt(S("revenue"), ">", Num(0)), Flt(S("churn"), "==", Num(1))},
     w \in {None, Window(DateS(2024, 1, 1), DateS(2024, 1, 31))}, g \in {<<>>, <<S("company")>>}}

\* Descriptors that vary the limit
DescsLimit ==
    {Desc(<<>>, fl, None, g, <<>>, ob, l, "absent") :
     fl \in {<<>>, <<Flt(S("churn_risk"), ">", Num(50))>>}, g \in {<<>>, <<S("company")>>},
     ob \in {<<>>, <<Ob(S("mrr_usd"), TRUE)>>}, l \in Limits}

\* Descriptors of the churn rate by company, ordered on churn
DescsChurnRate ==
    {Desc(<<>>, <<>>, None, <<S("company_name")>>, <<<<"churn", "mean">>>>,
          <<Ob(S("churn"), d)>>, l, "absent") : d \in BOOLEAN, l \in {None, <<"int", 1>>}}

Descriptors ==
    DescsMaterialize \cup DescsWindow \cup DescsAggregate \cup DescsFilter \cup
        DescsRevenueFilter \cup DescsOrder \cup DescsLimit \cup DescsChurnRate

\* Tables of other datasets: one with a renewal_date column next to the six
\* columns above (its cells are strings of the CSV file, dates, or missing),
\* one without the contract dates and mrr_usd.
RenewalCells == {DateS(2024, 1, 15), DateV(2024, 6, 30), NaN}

RenewalRows == {r \in RowPool : r["mrr_usd"] = Num(100000)}

SchemaNoMrr == <<"company_name", "churn", "churn_probability_percent">>

TablesRenewal ==
    UNION {{SetItem([cols |-> <<"company_name", "mrr_usd", "contract_start", "contract_end",
                               "churn", "churn_probability_percent">>, rows |-> rs],
                    "renewal_date", cs) : rs \in [1..n -> RenewalRows],
            cs \in [1..n -> RenewalCells]} : n \in 1..MaxRows}

TablesNoMrr ==
    UNION {{Project([cols |-> <<>>, rows |-> rs], SchemaNoMrr) : rs \in [1..n -> RowPool]} :
           n \in 1..MaxRows}

\* filters on date columns and between filters with a missing or an
\* unparseable bound
DateFilterPool ==
    {Flt(S("renewal_date"), ">=", DateS(2024, 1, 1)),
     Flt(S("renewal_date"), "==", DateS(2024, 1, 15)),
     Flt(S("contract_start"), ">=", DateS(2023, 2, 1)),
     Flt(S("end_date"), "between", <<"pair", DateS(2023, 6, 1), None>>),
     Flt(S("contract_end"), "between", <<"pair", None, DateS(2023, 12, 31)>>),
     Flt(S("contract_end"), "between", <<"pair", Str("soon"), DateS(2023, 12, 31)>>),
     Flt(S("contract_end"), "between", None),
     Flt(S("mrr_usd"), "between", <<"pair", Num(50000), Num(100000)>>),
     Flt(S("mrr_usd"), "between", <<"pair", None, Num(100000)>>),
     Flt(S("mrr"), "between", <<"pair", Num(100000), Str("abc")>>),
     Flt(S("churn_risk"), ">", Num(50))}

\* the six comparison operators of _apply_filters
CompareOps == {"==", "!=", ">", "<", ">=", "<="}

\* filters on a numeric column whose value is no number
UnparseablePool == {Flt(S("churn_risk"), op, Str("abc")) : op \in CompareOps}

\* Descriptors that filter the tables of the other datasets, grouped or not
DescsSchemas ==
    {Desc(sel, fl, None, g, <<>>, <<>>, None, "absent") :
     sel \in {<<>>, <<S("company_name")>>,
              <<S("company_name"), S("churn_probability_percent")>>},
     fl \in {<<>>} \cup {<<f>> : f \in DateFilterPool \cup UnparseablePool},
     g \in {<<>>, <<S("company")>>}}

\* the filters of a plan that name the churn flag, its aliases, the churn
\* probability or no column, with the values a planner writes
ChurnRefs == {S("churn"), S("is_churn"), D("churn_flag"), S("CHURN"), S("churn_risk"), S("bogus")}

ChurnValues ==
    {Num(0), Num(1), Num(2), Num(75), <<"dec", 5>>, <<"dec", 15>>, <<"nstr", 1>>,
     <<"nstr", 75>>, <<"pct", 1>>, <<"pct", 75>>, <<"pctdec", 5>>, <<"pcts", "abc">>,
     Str("abc"), None, <<"pair", Num(50), Num(90)>>}

PlanFilters == {Flt(c, op, v) : c \in ChurnRefs, op \in {"", ">"}, v \in ChurnValues}

\* the column references a plan hands to resolve_col: canonical names and
\* aliases in lower case and in another letter case, and no column
ResolveRefs ==
    {S("mrr_usd"), S("MRR_USD"), S("company_name"), S("COMPANY_NAME"), S("revenue"),
     S("REVENUE"), S("company"), S("Company"), S("churn_risk"), S("Churn_Risk"),
     S("contract_start"), S("start_date"), S("period_revenue_usd"), S(" revenue "),
     D("mrr_usd"), D("MRR_USD"), <<"e", "mrr_usd">>, S("bogus"), None}

\* The plans handed to sanitize_plan: a query step, alone or after a chart
\* step, whose args name columns by canonical names, aliases, other letter
\* cases, dicts, expressions and names no table has.
PlanOb(col, desc) == <<"ob", col, desc>>

PlanSelects ==
    {<<>>, <<S("company"), S("bogus")>>, <<S("MRR_USD")>>, <<S("mrr"), D("revenue")>>,
     <<S("churn"), S("overlap_months")>>, <<<<"e", "mrr_usd">>>>}

PlanGroups == {<<>>, <<S("customer")>>, <<S("segment")>>, <<S("period_revenue_usd")>>}

PlanFilterPool ==
    {Flt(S("churn"), ">", <<"pct", 75>>), Flt(S("is_churn"), "", Num(1)),
     Flt(S("bogus"), "", Num(1)), Flt(S("revenue"), ">", Num(0)), Flt(S("arr"), ">", Num(0)),
     Flt(S("contract_end_date"), "<", DateS(2024, 1, 1))}

PlanOrders ==
    {<<>>, <<PlanOb(S("revenue"), "true")>>, <<S("mrr")>>, <<PlanOb(None, "absent")>>,
     <<PlanOb(S("churn_rate"), "false"), S("bogus")>>, <<PlanOb(S("end_date"), "absent")>>}

PlanAggs ==
    AggPool \cup {<<<<"MRR_USD", "sum">>>>, <<<<"overlap_months", "sum">>>>,
                  <<<<"arr", "count">>, <<"bogus", "mean">>>>}

PlanArgs ==
    {Desc(sel, fl, None, g, <<>>, <<>>, None, "absent") : sel \in PlanSelects,
     fl \in {<<>>} \cup {<<f>> : f \in PlanFilterPool}, g \in PlanGroups} \cup
        {Desc(<<>>, <<>>, w, <<>>, ag, ob, None, c) :
         w \in {None, Window(DateS(2023, 6, 1), None)}, ag \in PlanAggs, ob \in PlanOrders,
         c \in {"absent", "false"}}

ChartStep == [tool |-> "chart", args |-> [kind |-> "auto"]]

Plans ==
    {<<[tool |-> "query", args |-> a]>> : a \in PlanArgs} \cup
        {<<ChartStep, [tool |-> "query", args |-> a]>> : a \in PlanArgs}

\* The choices a call leaves to its environment: the string-hash order when
\* it iterates a set of two or more column names, the order among equal
\* keys when it sorts.
Envs == [hashRev : BOOLEAN, tieRev : BOOLEAN]

EnvsFor(a) ==
    {e \in Envs : (e.hashRev => Len(a.filters) + Len(a.order_by) >= 2) /\
     (e.tieRev => a.order_by # <<>>)}

NoEnv == [hashRev |-> FALSE, tieRev |-> FALSE]

\* ---------------------------------------------------------- state machine

NoArgs == Desc(<<>>, <<>>, None, <<>>, <<>>, <<>>, None, "absent")

NoRes == [outcome |-> "none", table |-> EmptyTable]

\* The process has loaded a table; no query has run.
Init == df \in Tables /\ env = NoEnv /\ pc = "idle" /\ args = NoArgs /\ res = NoRes

\* One call tool_query(df, a), from entry to return or exception.
Query(a, e) ==
    /\ pc = "idle"
    /\ LET r == ToolQuery(df, a, e)
       IN  /\ df' = r.src
           /\ res' = [outcome |-> r.outcome, table |-> r.table]
    /\ args' = a
    /\ env' = e
    /\ pc' = "done"

\* the dates _overlap_months is called with: None or a date
DatePool ==
    {None, DateV(2023, 1, 1), DateV(2023, 6, 1), DateV(2023, 6, 30), DateV(2023, 12, 31),
     DateV(2024, 1, 1), DateV(2024, 1, 31)}

\* One call _overlap_months(cs, ce, ws, we).
Overlap(cs, ce, ws, we) == /\ pc = "idle"
                           /\ pc' = "overlap"
                           /\ args' = <<cs, ce, ws, we>>
                           /\ res' = OverlapMonths(cs, ce, ws, we)
                           /\ UNCHANGED <<df, env>>

\* One call _fix_filters(filters, schema) of the pre-pass on the plan's filters.
FixPlanFilters(filters) ==
    /\ pc = "idle"
    /\ pc' = "fixed"
    /\ args' = filters
    /\ res' = FixFilters(filters, ColSet(df))
    /\ UNCHANGED <<df, env>>

\* One call resolve_col(col_like, schema) under the schema of the table.
Resolve(col_like) ==
    /\ pc = "idle"
    /\ pc' = "resolved"
    /\ args' = col_like
    /\ res' = ResolveCol(col_like, ColSet(df))
    /\ UNCHANGED <<df, env>>

\* One call sanitize_plan(plan, schema) under the schema of the table.
Sanitize(plan) ==
    /\ pc = "idle"
    /\ pc' = "sanitized"
    /\ args' = plan
    /\ res' = SanitizePlan(plan, ColSet(df))
    /\ UNCHANGED <<df, env>>

\* The caller drops the result.
Discard == /\ pc \in {"done", "overlap", "fixed", "resolved", "sanitized"}
           /\ pc' = "idle"
           /\ args' = NoArgs
           /\ res' = NoRes
           /\ env' = NoEnv
           /\ UNCHANGED df

Next == (\E a \in Descriptors : \E e \in EnvsFor(a) : Query(a, e)) \/ Discard

Spec == Init /\ [][Next]_vars

\* The overlap computation on its own: calls of _overlap_months on the dates
\* of the pool, and the queries that vary the time window, on one-row tables.
InitOverlap ==
    df \in {t \in Tables : NRows(t) = 1} /\ env = NoEnv /\ pc = "idle" /\ args = NoArgs /\
        res = NoRes

NextOverlap ==
    (\E cs \in DatePool, ce \in DatePool, ws \in DatePool,
     we \in DatePool : Overlap(cs, ce, ws, we)) \/
        (\E a \in DescsWindow : \E e \in EnvsFor(a) : Query(a, e)) \/ Discard

SpecOverlap == InitOverlap /\ [][NextOverlap]_vars

\* The pre-pass on its own: calls of resolve_col on one reference, of
\* _fix_filters on one or two filters of the plan and of sanitize_plan on a
\* plan, under the schema of a one-row table.
NextSanitize ==
    (\E c \in ResolveRefs : Resolve(c)) \/ (\E f \in PlanFilters : FixPlanFilters(<<f>>)) \/
        (\E f \in PlanFilters : FixPlanFilters(<<Flt(S("mrr"), ">", Num(0)), f>>)) \/
        (\E plan \in Plans : Sanitize(plan)) \/ Discard

SpecSanitize == InitOverlap /\ [][NextSanitize]_vars

\* Queries on the tables of the other datasets.
InitSchemas ==
    df \in TablesRenewal \cup TablesNoMrr /\ env = NoEnv /\ pc = "idle" /\ args = NoArgs /\
        res = NoRes

NextSchemas == (\E a \in DescsSchemas : \E e \in EnvsFor(a) : Query(a, e)) \/ Discard

SpecSchemas == InitSchemas /\ [][NextSchemas]_vars

\* ----------------------------------------------------------------- claims

Done == pc = "done"

Ok == pc = "done" /\ res.outcome = "ok"

HasRevenueSources(t) == {"contract_start", "contract_end", "mrr_usd"} \subseteq ColSet(t)

\* C1: every call of tool_query returns a table; none ends in an error.
C1_AlwaysReturnsTable == Done => res.outcome = "ok"

\* C2 (as claimed): with an integer limit N >= 0, N = 0 included, the table
\* returned has at most N rows.
C2_LimitFromZero ==
    (Ok /\ Tag(args.limit) = "int" /\ args.limit[2] >= 0) => NRows(res.table) <= args.limit[2]

\* C2 (amended): with an integer limit N >= 1 the table returned has at most
\* N rows.
C2_LimitPositive ==
    (Ok /\ Tag(args.limit) = "int" /\ args.limit[2] >= 1) => NRows(res.table) <= args.limit[2]

\* a limit of 1 cut a two-row result down to one row
C2_Witness ==
    Ok /\ args.limit = <<"int", 1>> /\ args.filters = <<>> /\ args.group_by = <<>> /\
        NRows(df) = 2 /\ NRows(res.table) = 1

\* C3: no call of tool_query changes the source table: columns, rows, row
\* order and cells stay what they were.
C3_SourceUnchanged == [][df' = df]_vars

\* a call normalized the dates of its copy, added the revenue column and
\* dropped a row, on a source table that still holds the CSV strings
C3_Witness ==
    Ok /\ args.filters # <<>> /\ args.group_by = <<>> /\
        InSeq("period_revenue_usd", res.table.cols) /\ NRows(res.table) = 1 /\ NRows(df) = 2 /\
        Tag(df.rows[1]["contract_start"]) = "dstr" /\
        Tag(res.table.rows[1]["contract_start"]) = "date"

\* C4: a second execution of the same descriptor on the same table returns
\* the same table (columns, column order, rows, row order, values), whatever
\* order the set of referenced columns is iterated in.
C4_Deterministic ==
    Done => \A e \in EnvsFor(args) : e.tieRev = env.tieRev =>
        LET r == ToolQuery(df, args, e)
        IN  r.outcome = res.outcome /\ r.table = res.table

\* C5: appending a filter to a descriptor never increases the number of rows
\* returned: the result for filters L \o <<f>> has at most as many rows as
\* the result of the same descriptor with filters L.
C5_FilterMonotone ==
    (Ok /\ args.filters # <<>>) =>
        LET r0 == ToolQuery(df, [args EXCEPT !.filters =
                                 SubSeq(args.filters, 1, Len(args.filters) - 1)], env)
        IN  r0.outcome = "ok" => NRows(res.table) <= NRows(r0.table)

\* the last filter of a grouped descriptor with two filters removed a group
C5_Witness ==
    Ok /\ Len(args.filters) = 2 /\ args.group_by # <<>> /\
        LET r0 == ToolQuery(df, [args EXCEPT !.filters = SubSeq(args.filters, 1, 1)], env)
        IN  r0.outcome = "ok" /\ NRows(res.table) < NRows(r0.table)

\* C6: for order_by = [{A, desc}, {B, asc}] with A and B columns of the
\* result, the rows are non-increasing in A and, among rows with equal A,
\* non-decreasing in B.
C6_OrderStable ==
    (Ok /\ Len(args.order_by) = 2) =>
        LET A == ResolveCol(args.order_by[1].col, ColSet(res.table))
            B == ResolveCol(args.order_by[2].col, ColSet(res.table))
            rows == res.table.rows
        IN  (args.order_by[1].desc /\ ~args.order_by[2].desc /\ InSeq(A, res.table.cols) /\
             InSeq(B, res.table.cols)) =>
            \A i \in DOMAIN rows : \A j \in DOMAIN rows :
            (i < j /\ ~IsNull(rows[i][A]) /\ ~IsNull(rows[j][A])) => (~ValLess(rows[i][A],
                    rows[j][A]) /\ (rows[i][A] = rows[j][A] => ~ValLess(rows[j][B], rows[i][B])))

\* C7: with a single resolved group-by column g and no limit, the result has
\* one row per distinct non-missing value of g among the rows that pass the
\* filters.
C7_GroupingCardinality ==
    (Ok /\ ~LimitTruthy(args.limit)) =>
        LET f == Filtered(df, args)
            g == ResolveList(args.group_by, f.schema)
            passed == f.t.rows
            out == res.table.rows
            Values == {passed[i][g[1]] : i \in {j \in DOMAIN passed : ~IsNull(passed[j][g[1]])}}
        IN  Len(g) = 1 =>
                (NRows(res.table) = Cardinality(Values) /\
                 (g[1] = "company_name" =>
                     \A i \in DOMAIN out : \A j \in DOMAIN out :
                         i # j => out[i][g[1]] # out[j][g[1]]))

\* two filtered rows, one with a missing company, gave one group
C7_Witness ==
    Ok /\ args.group_by = <<S("company")>> /\ args.filters # <<>> /\ args.limit = None /\
        NRows(res.table) = 1 /\
        LET f == Filtered(df, args)
        IN  NRows(f.t) = 2 /\ NRows(df) = 2 /\
            \E i \in DOMAIN f.t.rows : f.t.rows[i]["company_name"] = NaN

\* C8: group_by=["company"], select=["company","revenue"], no aggregations,
\* computed not set, on a table with the three source columns: the result
\* has one row per company and a period_revenue_usd column.
C8_AliasRevenueSummed ==
    LET Companies == {df.rows[i]["company_name"] : i \in DOMAIN df.rows} \ {NaN}
        Dated == \A i \in DOMAIN df.rows : ~IsNull(NormalizeCell(df.rows[i]["contract_start"]))
    IN  (Done /\ HasRevenueSources(df) /\ Dated /\
         args.group_by = <<S("company")>> /\ args.select = <<S("company"), S("revenue")>> /\
         args.aggregations = <<>> /\ args.computed = "absent") =>
            (res.outcome = "ok" /\ InSeq("period_revenue_usd", res.table.cols) /\
             NRows(res.table) = Cardinality(Companies))

\* a reference of select, aggregations or order_by that resolves to the
\* revenue column
RefersToRevenue(a, schema) ==
    LET Revenue(ref) == ResolveCol(ref, schema) = "period_revenue_usd"
    IN  (\E i \in DOMAIN a.select : Revenue(a.select[i])) \/
        (\E i \in DOMAIN a.aggregations : Revenue(S(a.aggregations[i][1]))) \/
        (\E i \in DOMAIN a.order_by : Revenue(a.order_by[i].col))

\* C9: on a table with the three source columns, period_revenue_usd is
\* materialized exactly when computed is true or a reference of select,
\* aggregations or order_by resolves to the revenue column (canonical name,
\* alias or structured descriptor).
C9_TriggerByReference ==
    (Done /\ HasRevenueSources(df)) => (Materializes(df, args) <=> (args.computed = "true" \/
                                            RefersToRevenue(args, ColSet(df))))

\* the month count of the claim: 0 for a missing date or disjoint ranges,
\* else the least k with k * 30.4 >= days + 1
ExpectedMonths(cs, ce, ws, we) ==
    IF cs = None \/ ce = None \/ ws = None \/ we = None
    THEN 0
    ELSE LET a == IF ToOrdinal(cs) >= ToOrdinal(ws) THEN ToOrdinal(cs) ELSE ToOrdinal(ws)
             b == IF ToOrdinal(ce) <= ToOrdinal(we) THEN ToOrdinal(ce) ELSE ToOrdinal(we)
             n == b - a + 1
         IN  IF b < a
             THEN 0
             ELSE CHOOSE k \in 1..n : 304 * k >= 10 * n /\ 304 * (k - 1) < 10 * n

\* the window of a descriptor: its own when both ends are given, else
\* 2000-01-01..2100-01-01
ExpectedWindow(a) ==
    IF a.time_window # None /\ a.time_window[2] # None /\ a.time_window[3] # None
    THEN <<ToPyDate(a.time_window[2]), ToPyDate(a.time_window[3])>>
    ELSE <<DateV(2000, 1, 1), DateV(2100, 1, 1)>>

\* the month counts of _overlap_months and of the two examples
OverlapAsClaimed ==
    LET Contract2023(ws, we) == <<DateV(2023, 1, 1), DateV(2023, 12, 31), ws, we>>
    IN  /\ pc = "overlap" => res = ExpectedMonths(args[1], args[2], args[3], args[4])
        /\ (pc = "overlap" /\ args = Contract2023(DateV(2023, 6, 1), DateV(2023, 6, 30))) => res = 1
        /\ (pc = "overlap" /\ args = Contract2023(DateV(2024, 1, 1), DateV(2024, 1, 31))) => res = 0

\* the product mrr_usd * months of row i of an ungrouped result that carries
\* the revenue column
RevenueProduct(i) ==
    LET r == res.table.rows[i]
        w == ExpectedWindow(args)
    IN  r["mrr_usd"][2] * ExpectedMonths(r["contract_start"], r["contract_end"], w[1], w[2])

ShowsRevenueRows ==
    Ok /\ args.group_by = <<>> /\ InSeq("period_revenue_usd", res.table.cols) /\
        InSeq("contract_start", res.table.cols)

C10_Witness ==
    Ok /\ NRows(df) = 1 /\ args.time_window = Window(DateS(2023, 6, 1), DateS(2023, 6, 30)) /\
        args.group_by = <<>> /\ InSeq("contract_start", res.table.cols) /\
        res.table.rows[1]["contract_start"] = DateV(2023, 1, 1) /\
        res.table.rows[1]["contract_end"] = DateV(2023, 12, 31) /\
        res.table.rows[1]["mrr_usd"] = Num(100000) /\
        res.table.rows[1]["period_revenue_usd"] = Num(100000)

C11_MissingSourcesDropReferences ==
    (Done /\ ~HasRevenueSources(df) /\ args.filters = <<>> /\ Tag(args.limit) # "str") =>
        (res.outcome = "ok" /\ ~InSeq("period_revenue_usd", res.table.cols))

\* the filtered table, the resolved group keys and the aggregation map of
\* the grouped call the state records
GroupedCall ==
    LET f == Filtered(df, args)
        group_by == ResolveList(args.group_by, f.schema)
    IN  [grouped |-> ~f.err /\ group_by # <<>>, out |-> f.t, group_by |-> group_by,
         agg_map |-> BuildAggMap(args, f.schema, f.t, BuildSelect(args, f.schema, f.t),
                                 group_by, env)]

\* C12: in a grouped call every column of the aggregation map handed to
\* groupby().agg() is a numeric column of the filtered table and is none of
\* the group keys.
C12_AggregationTargets ==
    (Done /\ GroupedCall.grouped) =>
        \A i \in DOMAIN GroupedCall.agg_map :
            /\ IsNumericCol(GroupedCall.out, GroupedCall.agg_map[i][1])
            /\ ~InSeq(GroupedCall.agg_map[i][1], GroupedCall.group_by)

\* the filter value is a number above 1, written as a number, as the str of
\* a number, or as either followed by a percent sign
NumberAboveOne(v) ==
    \/ Tag(v) \in {"num", "nstr", "pct"} /\ v[2] > 1
    \/ Tag(v) \in {"dec", "pctdec"} /\ v[2] > 10

NamesChurnFlag(f) == AsColName(f.col) \in {"churn", "is_churn", "churn_flag"}

\* C13: _fix_filters gives a filter on the bare name churn, or on an alias
\* of the flag, the column churn_probability_percent exactly when its value
\* parses to a number above 1, with or without a percent sign, and the
\* column churn otherwise (a value of at most 1 or no number).
C13_ChurnDisambiguation ==
    (pc = "fixed" /\ Len(res) = Len(args)) =>
        \A i \in DOMAIN args :
            NamesChurnFlag(args[i]) =>
                /\ res[i].value = args[i].value
                /\ res[i].col = IF NumberAboveOne(args[i].value)
                                THEN S("churn_probability_percent")
                                ELSE S("churn")

\* churn > "75%" became churn_probability_percent > "75%"
C13_Witness ==
    /\ pc = "fixed"
    /\ args = <<Flt(S("churn"), ">", <<"pct", 75>>)>>
    /\ res = <<Flt(S("churn_probability_percent"), ">", <<"pct", 75>>)>>

\* churn == 1 stayed on the flag
C13_FlagWitness ==
    /\ pc = "fixed"
    /\ args = <<Flt(S("churn"), "", Num(1))>>
    /\ res = <<Flt(S("churn"), "==", Num(1))>>

\* the aggregation kind the grouped call gives column c, "" when it gives none
KindOf(c) ==
    IF HasKey(GroupedCall.agg_map, c)
    THEN GroupedCall.agg_map[DictGet(GroupedCall.agg_map, c)][2]
    ELSE ""

\* every churn cell of the source table is 0 or 1
ChurnIsBinary(t) ==
    InSeq("churn", t.cols) /\ \A i \in DOMAIN t.rows : t.rows[i]["churn"] \in {Num(0), Num(1)}

\* a numeric value between 0 and 1
InUnitInterval(v) == Tag(v) \in {"num", "frac"} /\ 0 <= NumP(v) /\ NumP(v) <= NumQ(v)

\* C14: a grouped call that returns and whose aggregation map gives churn the
\* kind mean returns a column churn_rate and no column churn, and over a
\* table whose churn cells are all 0 or 1 every churn_rate cell lies in
\* [0, 1]; when the map gives churn another kind the result keeps the column
\* churn and has no column churn_rate.
C14_ChurnRateRename ==
    (Done /\ GroupedCall.grouped /\ Ok /\ KindOf("churn") # "") =>
        IF KindOf("churn") = "mean"
        THEN /\ InSeq("churn_rate", res.table.cols)
             /\ ~InSeq("churn", res.table.cols)
             /\ ChurnIsBinary(df) =>
                    \A i \in DOMAIN res.table.rows :
                        InUnitInterval(res.table.rows[i]["churn_rate"])
        ELSE /\ InSeq("churn", res.table.cols)
             /\ ~InSeq("churn_rate", res.table.cols)

\* a group of two rows, one churned: its churn_rate is 1/2
C14_Witness ==
    /\ Done /\ GroupedCall.grouped /\ Ok
    /\ KindOf("churn") = "mean"
    /\ ChurnIsBinary(df)
    /\ \E i \in DOMAIN res.table.rows : res.table.rows[i]["churn_rate"] = <<"frac", 1, 2>>

\* a grouped call that sums churn returns the column churn
C14_SumWitness ==
    /\ Done /\ GroupedCall.grouped /\ Ok
    /\ KindOf("churn") = "sum"
    /\ InSeq("churn", res.table.cols)

\* two references of the same shape whose names differ in letter case only
SameButCase(r1, r2) == Tag(r1) = Tag(r2) /\ Lower(AsColName(r1)) = Lower(AsColName(r2))

\* C15: resolve_col gives a reference and the same reference written in
\* another letter case the same canonical column, under every schema.
C15_ResolverIgnoresCase ==
    pc = "resolved" =>
        \A r \in ResolveRefs : SameButCase(r, args) => ResolveCol(r, ColSet(df)) = res

\* the working copy of the table after the Normalize stage
Normalized(source) ==
    Frame(NormalizeDates(DfCopy([src |-> source, out |-> EmptyTable], "src")))

\* the columns of the table that a filter of the call resolves to and that
\* the predicate evaluator treats as date-typed
FilteredDateCols ==
    {c \in ColSet(df) : IsDateCol(c) /\
         \E i \in DOMAIN args.filters : ResolveCol(args.filters[i].col, ColSet(df)) = c}

\* C16: every column a filter of the call compares against and that
\* _coerce_scalar_for_series treats as a date column holds only date-only
\* values (a date, or a missing value) after the Normalize stage.
C16_DateColumnsNormalized ==
    Done =>
        \A c \in FilteredDateCols :
            \A i \in DOMAIN Normalized(df).rows :
                IsDate(Normalized(df).rows[i][c]) \/ IsNull(Normalized(df).rows[i][c])

\* the aggregation map of the grouped call after each rule: the explicit
\* aggregations, the selected numeric columns, the revenue columns, the
\* referenced columns, the fallback
StagesOf(out, schema, select, group_by) ==
    [explicit |-> ExplicitAggs(args, schema, out),
     selected |-> AggSelected(ExplicitAggs(args, schema, out), out, select, group_by),
     revenue |-> AggRevenue(AggSelected(ExplicitAggs(args, schema, out), out, select, group_by),
                            out),
     referenced |->
         AggReferenced(AggRevenue(AggSelected(ExplicitAggs(args, schema, out), out, select,
                                              group_by), out), args, out, group_by, env),
     final |-> BuildAggMap(args, schema, out, select, group_by, env)]

StagesFrom(f) ==
    StagesOf(f.t, f.schema, BuildSelect(args, f.schema, f.t),
             ResolveList(args.group_by, f.schema))

AggStages == StagesFrom(Filtered(df, args))

\* every column of the map m has the same kind in the map n
Extends(n, m) ==
    \A i \in DOMAIN m : \E j \in DOMAIN n : n[j] = m[i]

\* the explicit aggregation i of the caller names a column of the filtered
\* table c with one of the four kinds
ValidExplicit(i, c) ==
    /\ args.aggregations[i][2] \in AggKinds
    /\ InSeq(c, GroupedCall.out.cols)
    /\ c = (IF ResolveCol(S(args.aggregations[i][1]), ColSet(GroupedCall.out)) # ""
            THEN ResolveCol(S(args.aggregations[i][1]), ColSet(GroupedCall.out))
            ELSE args.aggregations[i][1])

\* C17: in a grouped call each rule of the aggregation map keeps the kind of
\* every column an earlier rule assigned, and the map handed to
\* groupby().agg() gives every valid explicit aggregation of the caller the
\* caller's kind.
C17_RulesOnlyFillGaps ==
    (Done /\ GroupedCall.grouped) =>
        /\ Extends(AggStages.selected, AggStages.explicit)
        /\ Extends(AggStages.revenue, AggStages.selected)
        /\ Extends(AggStages.referenced, AggStages.revenue)
        /\ Extends(AggStages.final, AggStages.referenced)
        /\ \A i \in DOMAIN args.aggregations :
               \A c \in ColSet(GroupedCall.out) :
                   ValidExplicit(i, c) => KindOf(c) = args.aggregations[i][2]

\* the caller's mean of the revenue column survives the rules that would
\* have summed it, and the later rules added columns to the map
C17_Witness ==
    /\ Done /\ GroupedCall.grouped /\ Ok
    /\ args.aggregations = <<<<"revenue", "mean">>>>
    /\ args.order_by # <<>>
    /\ AggStages.explicit = <<<<"period_revenue_usd", "mean">>>>
    /\ KindOf("period_revenue_usd") = "mean"
    /\ Len(AggStages.final) > 1

\* C18: a grouped call that returns, where a filter or an order_by entry
\* refers to churn_probability_percent, the column is no group key and the
\* caller gives it no aggregation, aggregates the column with max and
\* returns it, whether or not select lists it.
C18_RiskColumnMax ==
    (Done /\ GroupedCall.grouped /\ Ok /\
     "churn_probability_percent" \in ReferencedCols(args, GroupedCall.out) /\
     ~InSeq("churn_probability_percent", GroupedCall.group_by) /\
     ~HasKey(AggStages.explicit, "churn_probability_percent")) =>
        /\ KindOf("churn_probability_percent") = "max"
        /\ InSeq("churn_probability_percent", res.table.cols)

\* the columns of the result that are no group key of the call
Measures == {c \in ColSet(res.table) : ~InSeq(c, GroupedCall.group_by)}

\* C19: in a grouped call whose group keys are columns of the filtered table
\* the aggregation map handed to groupby().agg() is not empty, the call
\* returns, and the result has a column besides the group keys.
C19_GroupedHasMeasure ==
    (Done /\ GroupedCall.grouped /\
     \A k \in DOMAIN GroupedCall.group_by :
         InSeq(GroupedCall.group_by[k], GroupedCall.out.cols)) =>
        /\ GroupedCall.agg_map # <<>>
        /\ res.outcome = "ok"
        /\ Measures # {}

\* the between filter of a call with that filter only, no grouping and no
\* selection
BetweenCall ==
    Done /\ Len(args.filters) = 1 /\ args.filters[1].op = "between" /\
        args.group_by = <<>> /\ args.select = <<>> /\
        ResolveCol(args.filters[1].col, ColSet(df)) \in ColSet(df)

BetweenCol == ResolveCol(args.filters[1].col, ColSet(df))

\* the bound k (2 the lower, 3 the upper) of the between filter, None when
\* the value is no pair
BoundOf(k) == IF Tag(args.filters[1].value) = "pair" THEN args.filters[1].value[k] ELSE None

\* the bound parsed into the type of the column, None when it is absent or
\* cannot be parsed
ParsedBound(k) ==
    IF IsDateCol(BetweenCol)
    THEN (IF Tag(BoundOf(k)) \in {"date", "dstr"} THEN ToPyDate(BoundOf(k)) ELSE None)
    ELSE IF IsNumericCol(df, BetweenCol)
    THEN (IF Tag(BoundOf(k)) \in {"num", "nstr"} THEN ToNumeric(BoundOf(k)) ELSE None)
    ELSE BoundOf(k)

\* the cell x satisfies the bounds that parse
WithinBounds(x) ==
    /\ ParsedBound(2) # None => (~IsNull(x) /\ OrdKey(x) >= OrdKey(ParsedBound(2)))
    /\ ParsedBound(3) # None => (~IsNull(x) /\ OrdKey(x) <= OrdKey(ParsedBound(3)))

\* C20: a call whose only filter is a between filter on a date or numeric
\* column returns exactly the rows of the normalized table whose cell
\* satisfies the bounds that are present and parse into the column's type,
\* in order: an absent or unparseable bound leaves its side unconstrained.
C20_OneSidedBetween ==
    (BetweenCall /\ (IsDateCol(BetweenCol) \/ IsNumericCol(df, BetweenCol))) =>
        /\ res.outcome = "ok"
        /\ LET Keep(i) == WithinBounds(Normalized(df).rows[i][BetweenCol])
           IN  res.table.rows = SelectIdx(Normalized(df).rows, Keep, 1)

\* the call has one filter, with comparison operator op, on a numeric column
\* of the table, its value is no number, and the call does not group
UnparseableCompare(op) ==
    /\ Done /\ Len(args.filters) = 1 /\ args.group_by = <<>>
    /\ args.filters[1].op = op
    /\ IsNumericCol(df, ResolveCol(args.filters[1].col, ColSet(df)))
    /\ Tag(args.filters[1].value) = "str"

\* C21: a call whose only filter compares a numeric column, under ==, !=,
\* >, <, >= or <=, with a value that is no number returns a table with no
\* rows.
C21_UnparseableMatchesNothing ==
    \A op \in CompareOps :
        UnparseableCompare(op) => (res.outcome = "ok" /\ res.table.rows = <<>>)

\* the outcome of the call the state records with its limit removed, in the
\* same environment
Unlimited == ToolQuery(df, [args EXCEPT !.limit = None], env)

\* the first n rows of a sequence of rows, all of them when it has fewer
FirstRows(rows, n) == SubSeq(rows, 1, IF n < Len(rows) THEN n ELSE Len(rows))

\* C22: a call with an integer limit N >= 1 returns the columns and the
\* first min(N, total) rows, in order, of what the same call returns without
\* limit, and raises when that call raises; with limit 0 or no limit it
\* returns the same table as without limit.
C22_LimitIsPrefix ==
    (Done /\ Tag(args.limit) \in {"none", "int"}) =>
        /\ res.outcome = Unlimited.outcome
        /\ res.table.cols = Unlimited.table.cols
        /\ res.table.rows =
               IF Tag(args.limit) = "int" /\ args.limit[2] >= 1
               THEN FirstRows(Unlimited.table.rows, args.limit[2])
               ELSE Unlimited.table.rows

\* limit 1 kept the row the ordering put first, which is not the first row
\* of the source table
C22_Witness ==
    /\ Ok /\ args.limit = <<"int", 1>> /\ args.order_by # <<>> /\ args.group_by = <<>>
    /\ args.filters = <<>>
    /\ NRows(Unlimited.table) = 2 /\ NRows(res.table) = 1
    /\ res.table.rows[1]["mrr_usd"] = df.rows[2]["mrr_usd"]
    /\ res.table.rows[1]["mrr_usd"] # df.rows[1]["mrr_usd"]

\* C23: a grouped call with aggregations {churn: mean} and order_by churn
\* descending that returns has its rows in non-increasing order of
\* churn_rate.
C23_ChurnRateOrdered ==
    (Done /\ Ok /\ GroupedCall.grouped /\ args.aggregations = <<<<"churn", "mean">>>> /\
     args.order_by = <<Ob(S("churn"), TRUE)>>) =>
        \A i \in DOMAIN res.table.rows :
            \A j \in DOMAIN res.table.rows :
                i < j => ~ValLess(res.table.rows[i]["churn_rate"], res.table.rows[j]["churn_rate"])

\* C24: an ungrouped call whose select resolves to nothing and that returns
\* has exactly the columns of the source table, followed by
\* period_revenue_usd when the Materialize stage ran.
C24_MaterializeAddsOnlyRevenue ==
    (Done /\ Ok /\ args.group_by = <<>> /\ ResolveList(args.select, ColSet(df)) = <<>>) =>
        res.table.cols =
            IF Materializes(df, args) THEN Append(df.cols, "period_revenue_usd") ELSE df.cols

\* the column names the args of a sanitized query step refer to
NamedCols(a) ==
    {a.select[i][2] : i \in DOMAIN a.select} \cup {a.group_by[i][2] : i \in DOMAIN a.group_by} \cup
        {a.filters[i].col[2] : i \in DOMAIN a.filters} \cup
        {a.order_by[i].col[2] : i \in DOMAIN a.order_by} \cup
        {a.aggregations[i][1] : i \in DOMAIN a.aggregations}

\* C25: after sanitize_plan every entry of select and group_by, every
\* filter column, every order_by column and every aggregations key of every
\* query step is a column of the schema or is period_revenue_usd.
C25_SanitizedSelfConsistent ==
    pc = "sanitized" =>
        \A i \in DOMAIN res :
            res[i].tool = "query" => NamedCols(res[i].args) \subseteq ColSet(df) \cup VIRTUAL_COLS

\* a plan that named an unknown aggregation column and an alias came out
\* with the alias resolved, the unknown name gone and the revenue defaults
\* added
C25_Witness ==
    /\ pc = "sanitized"
    /\ Len(args) = 2
    /\ args[2].args.aggregations = <<<<"arr", "count">>, <<"bogus", "mean">>>>
    /\ args[2].args.order_by = <<PlanOb(S("churn_rate"), "false"), S("bogus")>>
    /\ res[2].args.aggregations = <<<<"mrr_usd", "count">>, <<"period_revenue_usd", "sum">>>>
    /\ res[2].args.order_by = <<Ob(S("period_revenue_usd"), TRUE)>>
    /\ res[2].args.select = <<S("company_name"), S("period_revenue_usd")>>
    /\ res[2].args.group_by = <<S("company_name")>>
    /\ res[2].args.computed = "true"

====
